---- MODULE Spec2Model ----
(***************************************************************************)
(* Model of internal/handler.go: HandleRequest, processor, get and         *)
(* maxConcurrency.  One request lists the bucket, starts one goroutine per *)
(* listed key behind a counting semaphore (a buffered channel of capacity  *)
(* mc), waits on a WaitGroup and returns the count or the earliest match.  *)
(*                                                                         *)
(* Strings are sequences of one-character strings, so that Itoa, Atoi and  *)
(* strings.Contains are computed and not assumed.  A pointer is a sequence *)
(* of length 0 (nil) or 1.  Listing indices are 0-based as in the source.  *)
(***************************************************************************)
EXTENDS Integers, Sequences, FiniteSets, TLC

\* ----- bounds ---------------------------------------------------------
\* largest number of entries a listing response holds
MaxKeys == 2
\* longest value of MAX_CONCURRENCY enumerated character by character
MaxEnvLen == 3

\* ----- program constants ------------------------------------------------
\* math.MaxInt, at the width of TLC's integers
MaxInt == 2147483647
\* maxConcurrency's default and its upper clamp
DefaultConcurrency == 64
ConcurrencyCap == 256

\* ----- pointers and errors ----------------------------------------------
Nil == <<>>
Ptr(v) == <<v>>
Deref(p) == p[1]

NoErr == "nil"
ErrList == "ListObjectsV2 failed"
ErrFetch == "GetObject failed"
ErrRead == "body read failed"
ErrCanceled == "context canceled"
ErrSyntax == "strconv.Atoi: invalid syntax"
ErrRange == "strconv.Atoi: value out of range"

\* ----- strconv ----------------------------------------------------------
Digits == <<"0", "1", "2", "3", "4", "5", "6", "7", "8", "9">>

IsDigit(c) == \E d \in 1..10 : Digits[d] = c

DigitVal(c) == (CHOOSE d \in 1..10 : Digits[d] = c) - 1

RECURSIVE ItoaNat(_)
ItoaNat(n) == IF n < 10 THEN <<Digits[n + 1]>>
              ELSE ItoaNat(n \div 10) \o <<Digits[(n % 10) + 1]>>

\* strconv.Itoa
Itoa(n) == IF n < 0 THEN <<"-">> \o ItoaNat(-n) ELSE ItoaNat(n)

\* the value of a digit string, or OutOfRange once it exceeds MaxInt
OutOfRange == -1

RECURSIVE AtoiDigits(_, _)
AtoiDigits(s, acc) ==
    IF s = <<>> THEN acc
    ELSE IF acc > MaxInt \div 10 THEN OutOfRange
    ELSE IF acc = MaxInt \div 10 /\ DigitVal(Head(s)) > MaxInt % 10 THEN OutOfRange
    ELSE AtoiDigits(Tail(s), acc * 10 + DigitVal(Head(s)))

\* strconv.Atoi: an optional sign, then one or more decimal digits; a value
\* outside the int range is a range error (the magnitude MaxInt + 1, which a
\* "-" makes the least int, is reported as one too: maxConcurrency treats
\* both alike, as a value below 1)
Atoi(v) ==
    LET signed == v # <<>> /\ Head(v) \in {"+", "-"}
        body   == IF signed THEN Tail(v) ELSE v
        mag    == AtoiDigits(body, 0)
    IN  IF body = <<>> \/ \E k \in 1..Len(body) : ~IsDigit(body[k])
        THEN [n |-> 0, err |-> ErrSyntax]
        ELSE IF mag = OutOfRange
        THEN [n |-> IF signed /\ Head(v) = "-" THEN -MaxInt ELSE MaxInt, err |-> ErrRange]
        ELSE [n |-> IF signed /\ Head(v) = "-" THEN -mag ELSE mag, err |-> NoErr]

\* variant of maxConcurrency: no upper clamp
maxConcurrencyNoCap(v) ==
    IF v = <<>> THEN DefaultConcurrency
    ELSE LET a == Atoi(v)
         IN  IF a.err # NoErr \/ a.n < 1 THEN DefaultConcurrency
             ELSE a.n

\* maxConcurrency, given the value of MAX_CONCURRENCY ("" when unset)
maxConcurrency(v) ==
    IF v = <<>> THEN DefaultConcurrency
    ELSE LET a == Atoi(v)
         IN  IF a.err # NoErr \/ a.n < 1 THEN DefaultConcurrency
             ELSE IF a.n > ConcurrencyCap THEN ConcurrencyCap
             ELSE a.n

\* ----- strings.Contains ---------------------------------------------------
Contains(s, sub) ==
    \E k \in 0..(Len(s) - Len(sub)) : SubSeq(s, k + 1, k + Len(sub)) = sub

\* ----- the inputs ---------------------------------------------------------
Reqs == {1, 2}

\* the key of the object at a position of the bucket
KeyName(pos) == <<"k">> \o Itoa(pos - 1)

Bodies == {<<"x", "a", "b">>, <<"a", "x", "b">>}
Faults == {"none", "fetch", "read"}

\* what a bucket can hold at a position: an entry whose Key the listing
\* reports as nil, or an object with a body and the fault its retrieval hits
ObjectsAt(pos) ==
    {[Key |-> Nil, Body |-> <<>>, Fault |-> "none"]}
    \cup {[Key |-> Ptr(KeyName(pos)), Body |-> b, Fault |-> f] : b \in Bodies, f \in Faults}

RECURSIVE BucketsOfLen(_)
BucketsOfLen(n) ==
    IF n = 0 THEN {<<>>}
    ELSE {Append(b, o) : b \in BucketsOfLen(n - 1), o \in ObjectsAt(n)}

Buckets == UNION {BucketsOfLen(n) : n \in 0..MaxKeys}

\* Event.Find: nil, a substring, or the empty string
Finds == {Nil, Ptr(<<"a", "b">>), Ptr(<<>>)}

\* values of MAX_CONCURRENCY: unset, "1", "2"
EnvValues == {<<>>, <<"1">>, <<"2">>}

\* wall-clock duration of a scan, in milliseconds
ElapsedMs == {160}

VARIABLES
    bucket,    \* the store: the entries ListObjectsV2 reports, in listing order
    callers,   \* the requests the caller issues
    serial,    \* TRUE: the caller issues a request after the previous returned
    event,     \* event[r].Find
    env,       \* MAX_CONCURRENCY as request r reads it
    ctx,       \* ctx of request r: [done, after], after = keys started at the cancel
    pc,        \* where HandleRequest/processor of request r stands
    listing,   \* how the ListObjectsV2 call of request r ended: "none", "ok", "err"
    keys,      \* processor's keys
    mc,        \* processor's mc
    sem,       \* number of tokens in processor's sem channel
    wg,        \* counter of processor's WaitGroup
    mu,        \* holder of processor's mutex: Nil or Ptr(task index)
    bestIdx,
    bestKey,
    idx,       \* the loop variable i of the submit loop
    task,      \* task[r][i]: the goroutine started for keys[i]
    fetched,   \* fetched[r][i]: number of get calls made for keys[i]
    stdout,    \* the lines fmt.Println wrote
    ret,       \* what processor returned: [result, err]
    out        \* what HandleRequest returned: [resp, err]

vars == <<bucket, callers, serial, event, env, ctx, pc, listing, keys, mc, sem, wg, mu,
          bestIdx, bestKey, idx, task, fetched, stdout, ret, out>>

Slots == 0..(MaxKeys - 1)

NewTask == [pc |-> "new", match |-> Nil, err |-> NoErr, released |-> 0]

\* ----- the store ----------------------------------------------------------
\* resp.Contents of a successful ListObjectsV2
ListObjectsV2 == bucket

\* lines 179-183: the keys of the entries whose Key is not nil
RECURSIVE ListedKeys(_)
ListedKeys(contents) ==
    IF contents = <<>> THEN <<>>
    ELSE IF Head(contents).Key # Nil
         THEN <<Deref(Head(contents).Key)>> \o ListedKeys(Tail(contents))
         ELSE ListedKeys(Tail(contents))

\* the object GetObject addresses by key
ObjectOf(key) ==
    CHOOSE o \in {bucket[p] : p \in 1..Len(bucket)} : o.Key = Ptr(key)

\* variant of get: in search mode the error of the body read is dropped and
\* the bytes read so far are searched
getIgnoresReadError(cancelled, key, find) ==
    LET o == ObjectOf(key)
    IN  IF cancelled THEN [match |-> Nil, err |-> ErrCanceled]
        ELSE IF o.Fault = "fetch" THEN [match |-> Nil, err |-> ErrFetch]
        ELSE IF find = Nil
        THEN IF o.Fault = "read" THEN [match |-> Nil, err |-> ErrRead]
             ELSE [match |-> Nil, err |-> NoErr]
        ELSE IF Contains(o.Body, Deref(find)) THEN [match |-> Ptr(key), err |-> NoErr]
        ELSE [match |-> Nil, err |-> NoErr]

\* get: fetch the object, read its body to the end, test the substring;
\* GetObject under a cancelled context fails
get(cancelled, key, find) ==
    LET o == ObjectOf(key)
    IN  IF cancelled THEN [match |-> Nil, err |-> ErrCanceled]
        ELSE IF o.Fault = "fetch" THEN [match |-> Nil, err |-> ErrFetch]
        ELSE IF find = Nil
        THEN IF o.Fault = "read" THEN [match |-> Nil, err |-> ErrRead]
             ELSE [match |-> Nil, err |-> NoErr]
        ELSE IF o.Fault = "read" THEN [match |-> Nil, err |-> ErrRead]
        ELSE IF Contains(o.Body, Deref(find)) THEN [match |-> Ptr(key), err |-> NoErr]
        ELSE [match |-> Nil, err |-> NoErr]

\* ----- initial states -----------------------------------------------------
\* the caller issues the requests cs against a bucket of bs, with Find among
\* fs and MAX_CONCURRENCY among es
InitOver(cs, ser, bs, fs, es) ==
    /\ bucket \in bs
    /\ callers = cs
    /\ serial = ser
    /\ \E f \in [cs -> fs] :
         event = [r \in Reqs |-> [Find |-> IF r \in cs THEN f[r] ELSE Nil]]
    /\ \E e \in [cs -> es] :
         env = [r \in Reqs |-> IF r \in cs THEN e[r] ELSE <<>>]
    /\ ctx = [r \in Reqs |-> [done |-> FALSE, after |-> 0]]
    /\ pc = [r \in Reqs |-> "idle"]
    /\ listing = [r \in Reqs |-> "none"]
    /\ keys = [r \in Reqs |-> <<>>]
    /\ mc = [r \in Reqs |-> 0]
    /\ sem = [r \in Reqs |-> 0]
    /\ wg = [r \in Reqs |-> 0]
    /\ mu = [r \in Reqs |-> Nil]
    /\ bestIdx = [r \in Reqs |-> MaxInt]
    /\ bestKey = [r \in Reqs |-> Nil]
    /\ idx = [r \in Reqs |-> 0]
    /\ task = [r \in Reqs |-> [i \in Slots |-> NewTask]]
    /\ fetched = [r \in Reqs |-> [i \in Slots |-> 0]]
    /\ stdout = {}
    /\ ret = [r \in Reqs |-> [result |-> Nil, err |-> NoErr]]
    /\ out = [r \in Reqs |-> [resp |-> Nil, err |-> NoErr]]

InitWith(cs, ser) == InitOver(cs, ser, Buckets, Finds, EnvValues)

\* one request
Init == InitWith({1}, TRUE)

\* ----- HandleRequest and processor ----------------------------------------
\* HandleRequest is called and calls processor
Invoke(r) ==
    /\ r \in callers
    /\ pc[r] = "idle"
    /\ serial => \A q \in callers : q < r => pc[q] = "done"
    /\ pc' = [pc EXCEPT ![r] = "list"]
    /\ UNCHANGED <<bucket, callers, serial, event, env, ctx, listing, keys, mc, sem, wg, mu,
                   bestIdx, bestKey, idx, task, fetched, stdout, ret, out>>

\* variant of ListErr: the error of ListObjectsV2 is dropped and the scan goes on
ListErrIgnored(r) ==
    /\ pc[r] = "list"
    /\ listing' = [listing EXCEPT ![r] = "err"]
    /\ LET ks == ListedKeys(bucket)
       IN  /\ keys' = [keys EXCEPT ![r] = ks]
           /\ pc' = [pc EXCEPT ![r] = IF Len(ks) > 0 THEN "add" ELSE "wait"]
    /\ mc' = [mc EXCEPT ![r] = maxConcurrency(env[r])]
    /\ UNCHANGED <<bucket, callers, serial, event, env, ctx, sem, wg, mu, bestIdx, bestKey,
                   idx, task, fetched, stdout, ret, out>>

\* lines 175-178: ListObjectsV2 fails, processor returns (nil, err)
ListErr(r) ==
    /\ pc[r] = "list"
    /\ listing' = [listing EXCEPT ![r] = "err"]
    /\ ret' = [ret EXCEPT ![r] = [result |-> Nil, err |-> ErrList]]
    /\ pc' = [pc EXCEPT ![r] = "returned"]
    /\ UNCHANGED <<bucket, callers, serial, event, env, ctx, keys, mc, sem, wg, mu,
                   bestIdx, bestKey, idx, task, fetched, stdout, out>>

\* lines 175-198: ListObjectsV2 succeeds (the context is not cancelled); keys,
\* mc, sem, wg, bestIdx, bestKey are set up and the submit loop is entered
ListOk(r) ==
    /\ pc[r] = "list"
    /\ ~ctx[r].done
    /\ listing' = [listing EXCEPT ![r] = "ok"]
    /\ LET ks == ListedKeys(ListObjectsV2)
       IN  /\ keys' = [keys EXCEPT ![r] = ks]
           /\ pc' = [pc EXCEPT ![r] = IF Len(ks) > 0 THEN "add" ELSE "wait"]
    /\ mc' = [mc EXCEPT ![r] = maxConcurrency(env[r])]
    /\ sem' = [sem EXCEPT ![r] = 0]
    /\ wg' = [wg EXCEPT ![r] = 0]
    /\ mu' = [mu EXCEPT ![r] = Nil]
    /\ bestIdx' = [bestIdx EXCEPT ![r] = MaxInt]
    /\ bestKey' = [bestKey EXCEPT ![r] = Nil]
    /\ idx' = [idx EXCEPT ![r] = 0]
    /\ UNCHANGED <<bucket, callers, serial, event, env, ctx, task, fetched, stdout, ret, out>>

\* variant of Add: the submit loop stops once the context is cancelled
AddStopsOnCancel(r) ==
    /\ pc[r] = "add"
    /\ IF ctx[r].done
       THEN /\ pc' = [pc EXCEPT ![r] = "wait"]
            /\ UNCHANGED wg
       ELSE /\ wg' = [wg EXCEPT ![r] = @ + 1]
            /\ pc' = [pc EXCEPT ![r] = "send"]
    /\ UNCHANGED <<bucket, callers, serial, event, env, ctx, listing, keys, mc, sem, mu,
                   bestIdx, bestKey, idx, task, fetched, stdout, ret, out>>

\* variant of Add: in search mode the submit loop stops once a match is recorded
AddStopsAfterMatch(r) ==
    /\ pc[r] = "add"
    /\ IF event[r].Find # Nil /\ bestKey[r] # Nil
       THEN /\ pc' = [pc EXCEPT ![r] = "wait"]
            /\ UNCHANGED wg
       ELSE /\ wg' = [wg EXCEPT ![r] = @ + 1]
            /\ pc' = [pc EXCEPT ![r] = "send"]
    /\ UNCHANGED <<bucket, callers, serial, event, env, ctx, listing, keys, mc, sem, mu,
                   bestIdx, bestKey, idx, task, fetched, stdout, ret, out>>

\* line 203: wg.Add(1)
Add(r) ==
    /\ pc[r] = "add"
    /\ wg' = [wg EXCEPT ![r] = @ + 1]
    /\ pc' = [pc EXCEPT ![r] = "send"]
    /\ UNCHANGED <<bucket, callers, serial, event, env, ctx, listing, keys, mc, sem, mu,
                   bestIdx, bestKey, idx, task, fetched, stdout, ret, out>>

\* variant of Send: one pool for all requests, the send blocks while the
\* requests together hold mc tokens
SendSharedPool(r) ==
    /\ pc[r] = "send"
    /\ sem[1] + sem[2] < mc[r]
    /\ sem' = [sem EXCEPT ![r] = @ + 1]
    /\ pc' = [pc EXCEPT ![r] = "go"]
    /\ UNCHANGED <<bucket, callers, serial, event, env, ctx, listing, keys, mc, wg, mu,
                   bestIdx, bestKey, idx, task, fetched, stdout, ret, out>>

\* variant of Send: a send that finds the pool full is skipped
SendSkipsWhenFull(r) ==
    /\ pc[r] = "send"
    /\ sem' = [sem EXCEPT ![r] = IF @ < mc[r] THEN @ + 1 ELSE @]
    /\ pc' = [pc EXCEPT ![r] = "go"]
    /\ UNCHANGED <<bucket, callers, serial, event, env, ctx, listing, keys, mc, wg, mu,
                   bestIdx, bestKey, idx, task, fetched, stdout, ret, out>>

\* variant of Send: the send never blocks
SendUnbounded(r) ==
    /\ pc[r] = "send"
    /\ sem' = [sem EXCEPT ![r] = @ + 1]
    /\ pc' = [pc EXCEPT ![r] = "go"]
    /\ UNCHANGED <<bucket, callers, serial, event, env, ctx, listing, keys, mc, wg, mu,
                   bestIdx, bestKey, idx, task, fetched, stdout, ret, out>>

\* line 204: sem <- struct{}{} blocks while the channel holds mc tokens
Send(r) ==
    /\ pc[r] = "send"
    /\ sem[r] < mc[r]
    /\ sem' = [sem EXCEPT ![r] = @ + 1]
    /\ pc' = [pc EXCEPT ![r] = "go"]
    /\ UNCHANGED <<bucket, callers, serial, event, env, ctx, listing, keys, mc, wg, mu,
                   bestIdx, bestKey, idx, task, fetched, stdout, ret, out>>

\* lines 205, 200: the go statement starts the goroutine of keys[i]; the loop
\* moves to the next key or ends
Go(r) ==
    /\ pc[r] = "go"
    /\ task' = [task EXCEPT ![r][idx[r]].pc = "get"]
    /\ idx' = [idx EXCEPT ![r] = @ + 1]
    /\ pc' = [pc EXCEPT ![r] = IF idx[r] + 1 < Len(keys[r]) THEN "add" ELSE "wait"]
    /\ UNCHANGED <<bucket, callers, serial, event, env, ctx, listing, keys, mc, sem, wg, mu,
                   bestIdx, bestKey, fetched, stdout, ret, out>>

\* variant of Result: an empty listing yields nil in both modes
ResultNilOnEmpty(find, ks, bKey) ==
    IF ks = <<>> THEN Nil
    ELSE IF find = Nil THEN Ptr(Itoa(Len(ks))) ELSE bKey

\* lines 229-235: the result processor returns once wg.Wait has returned
Result(find, ks, bKey) ==
    IF find = Nil THEN Ptr(Itoa(Len(ks))) ELSE bKey

\* variant of Wait: processor returns without waiting for the goroutines
WaitNoBarrier(r) ==
    /\ pc[r] = "wait"
    /\ ret' = [ret EXCEPT ![r] =
                 [result |-> IF event[r].Find = Nil THEN Ptr(Itoa(Len(keys[r])))
                             ELSE bestKey[r],
                  err |-> NoErr]]
    /\ pc' = [pc EXCEPT ![r] = "returned"]
    /\ UNCHANGED <<bucket, callers, serial, event, env, ctx, listing, keys, mc, sem, wg, mu,
                   bestIdx, bestKey, idx, task, fetched, stdout, out>>

\* variant of Wait: the error of a failed task becomes processor's error
WaitFailsOnError(r) ==
    /\ pc[r] = "wait"
    /\ wg[r] = 0
    /\ LET bad == {i \in 0..(Len(keys[r]) - 1) : task[r][i].err # NoErr}
       IN  ret' = [ret EXCEPT ![r] =
                     IF bad # {}
                     THEN [result |-> Nil,
                           err |-> task[r][CHOOSE i \in bad : \A j \in bad : i <= j].err]
                     ELSE [result |-> IF event[r].Find = Nil THEN Ptr(Itoa(Len(keys[r])))
                                      ELSE bestKey[r],
                           err |-> NoErr]]
    /\ pc' = [pc EXCEPT ![r] = "returned"]
    /\ UNCHANGED <<bucket, callers, serial, event, env, ctx, listing, keys, mc, sem, wg, mu,
                   bestIdx, bestKey, idx, task, fetched, stdout, out>>

\* variant of Wait: the count is the number of keys read without error
WaitCountsReads(r) ==
    /\ pc[r] = "wait"
    /\ wg[r] = 0
    /\ LET ok == {i \in 0..(Len(keys[r]) - 1) : task[r][i].err = NoErr}
       IN  ret' = [ret EXCEPT ![r] =
                     [result |-> IF event[r].Find = Nil THEN Ptr(Itoa(Cardinality(ok)))
                                 ELSE bestKey[r],
                      err |-> NoErr]]
    /\ pc' = [pc EXCEPT ![r] = "returned"]
    /\ UNCHANGED <<bucket, callers, serial, event, env, ctx, listing, keys, mc, sem, wg, mu,
                   bestIdx, bestKey, idx, task, fetched, stdout, out>>

\* lines 227-235: wg.Wait returns when the counter is zero; processor returns
Wait(r) ==
    /\ pc[r] = "wait"
    /\ wg[r] = 0
    /\ ret' = [ret EXCEPT ![r] =
                 [result |-> Result(event[r].Find, keys[r], bestKey[r]), err |-> NoErr]]
    /\ pc' = [pc EXCEPT ![r] = "returned"]
    /\ UNCHANGED <<bucket, callers, serial, event, env, ctx, listing, keys, mc, sem, wg, mu,
                   bestIdx, bestKey, idx, task, fetched, stdout, out>>

\* math.Round(elapsed*10): tenths of a second, halves away from zero
RoundTenths(ms) == (ms + 50) \div 100

\* lines 147-159: HandleRequest returns (nil, err) or the Response
Respond(r) ==
    /\ pc[r] = "returned"
    /\ \E ms \in ElapsedMs :
         out' = [out EXCEPT ![r] =
                   IF ret[r].err # NoErr
                   THEN [resp |-> Nil, err |-> ret[r].err]
                   ELSE [resp |-> Ptr([Lang |-> "go", Detail |-> "aws-sdk-v2",
                                       Result |-> ret[r].result,
                                       Time |-> RoundTenths(ms)]),
                         err |-> NoErr]]
    /\ pc' = [pc EXCEPT ![r] = "done"]
    /\ UNCHANGED <<bucket, callers, serial, event, env, ctx, listing, keys, mc, sem, wg, mu,
                   bestIdx, bestKey, idx, task, fetched, stdout, ret>>

\* ----- the goroutine of keys[i] -------------------------------------------
\* variant of TaskGet: a task without a match leaves without giving the slot back
TaskGetNoMatchKeepsSlot(r, i) ==
    /\ task[r][i].pc = "get"
    /\ LET key == keys[r][i + 1]
           g   == get(ctx[r].done, key, event[r].Find)
       IN  /\ task' = [task EXCEPT ![r][i] =
                         [pc |-> IF g.err # NoErr THEN "release"
                                 ELSE IF event[r].Find # Nil /\ g.match # Nil THEN "lock"
                                 ELSE "wgdone",
                          match |-> g.match, err |-> g.err, released |-> 0]]
           /\ stdout' = IF g.err # NoErr
                        THEN stdout \cup {[req |-> r, key |-> key, err |-> g.err]}
                        ELSE stdout
    /\ fetched' = [fetched EXCEPT ![r][i] = @ + 1]
    /\ UNCHANGED <<bucket, callers, serial, event, env, ctx, pc, listing, keys, mc, sem, wg, mu,
                   bestIdx, bestKey, idx, ret, out>>

\* variant of TaskGet: the error return leaves without giving the slot back
TaskGetKeepsSlot(r, i) ==
    /\ task[r][i].pc = "get"
    /\ LET key == keys[r][i + 1]
           g   == get(ctx[r].done, key, event[r].Find)
       IN  /\ task' = [task EXCEPT ![r][i] =
                         [pc |-> IF g.err # NoErr THEN "wgdone"
                                 ELSE IF event[r].Find # Nil /\ g.match # Nil THEN "lock"
                                 ELSE "release",
                          match |-> g.match, err |-> g.err, released |-> 0]]
           /\ stdout' = IF g.err # NoErr
                        THEN stdout \cup {[req |-> r, key |-> key, err |-> g.err]}
                        ELSE stdout
    /\ fetched' = [fetched EXCEPT ![r][i] = @ + 1]
    /\ UNCHANGED <<bucket, callers, serial, event, env, ctx, pc, listing, keys, mc, sem, wg, mu,
                   bestIdx, bestKey, idx, ret, out>>

\* lines 209-215: get returns; an error is printed and the goroutine returns;
\* a match in search mode goes on to the mutex
TaskGet(r, i) ==
    /\ task[r][i].pc = "get"
    /\ LET key == keys[r][i + 1]
           g   == get(ctx[r].done, key, event[r].Find)
       IN  /\ task' = [task EXCEPT ![r][i] =
                         [pc |-> IF g.err # NoErr THEN "release"
                                 ELSE IF event[r].Find # Nil /\ g.match # Nil THEN "lock"
                                 ELSE "release",
                          match |-> g.match, err |-> g.err, released |-> 0]]
           /\ stdout' = IF g.err # NoErr
                        THEN stdout \cup {[req |-> r, key |-> key, err |-> g.err]}
                        ELSE stdout
    /\ fetched' = [fetched EXCEPT ![r][i] = @ + 1]
    /\ UNCHANGED <<bucket, callers, serial, event, env, ctx, pc, listing, keys, mc, sem, wg, mu,
                   bestIdx, bestKey, idx, ret, out>>

\* variant of TaskLock: the lock is taken whoever holds it
TaskLockNoMutex(r, i) ==
    /\ task[r][i].pc = "lock"
    /\ mu' = [mu EXCEPT ![r] = Ptr(i)]
    /\ task' = [task EXCEPT ![r][i].pc = "locked"]
    /\ UNCHANGED <<bucket, callers, serial, event, env, ctx, pc, listing, keys, mc, sem, wg,
                   bestIdx, bestKey, idx, fetched, stdout, ret, out>>

\* line 216: mu.Lock
TaskLock(r, i) ==
    /\ task[r][i].pc = "lock"
    /\ mu[r] = Nil
    /\ mu' = [mu EXCEPT ![r] = Ptr(i)]
    /\ task' = [task EXCEPT ![r][i].pc = "locked"]
    /\ UNCHANGED <<bucket, callers, serial, event, env, ctx, pc, listing, keys, mc, sem, wg,
                   bestIdx, bestKey, idx, fetched, stdout, ret, out>>

\* variant of TaskRecord: the first task to report a match wins
TaskRecordFirst(r, i) ==
    /\ task[r][i].pc = "locked"
    /\ IF bestKey[r] = Nil
       THEN /\ bestIdx' = [bestIdx EXCEPT ![r] = i]
            /\ bestKey' = [bestKey EXCEPT ![r] = task[r][i].match]
       ELSE UNCHANGED <<bestIdx, bestKey>>
    /\ mu' = [mu EXCEPT ![r] = Nil]
    /\ task' = [task EXCEPT ![r][i].pc = "release"]
    /\ UNCHANGED <<bucket, callers, serial, event, env, ctx, pc, listing, keys, mc, sem, wg,
                   idx, fetched, stdout, ret, out>>

\* variant of TaskRecord: the last task to report a match wins
TaskRecordLast(r, i) ==
    /\ task[r][i].pc = "locked"
    /\ bestIdx' = [bestIdx EXCEPT ![r] = i]
    /\ bestKey' = [bestKey EXCEPT ![r] = task[r][i].match]
    /\ mu' = [mu EXCEPT ![r] = Nil]
    /\ task' = [task EXCEPT ![r][i].pc = "release"]
    /\ UNCHANGED <<bucket, callers, serial, event, env, ctx, pc, listing, keys, mc, sem, wg,
                   idx, fetched, stdout, ret, out>>

\* lines 217-221: the smaller index wins; mu.Unlock
TaskRecord(r, i) ==
    /\ task[r][i].pc = "locked"
    /\ IF i < bestIdx[r]
       THEN /\ bestIdx' = [bestIdx EXCEPT ![r] = i]
            /\ bestKey' = [bestKey EXCEPT ![r] = task[r][i].match]
       ELSE UNCHANGED <<bestIdx, bestKey>>
    /\ mu' = [mu EXCEPT ![r] = Nil]
    /\ task' = [task EXCEPT ![r][i].pc = "release"]
    /\ UNCHANGED <<bucket, callers, serial, event, env, ctx, pc, listing, keys, mc, sem, wg,
                   idx, fetched, stdout, ret, out>>

\* line 207: the deferred <-sem
TaskRelease(r, i) ==
    /\ task[r][i].pc = "release"
    /\ sem[r] > 0
    /\ sem' = [sem EXCEPT ![r] = @ - 1]
    /\ task' = [task EXCEPT ![r][i].pc = "wgdone", ![r][i].released = @ + 1]
    /\ UNCHANGED <<bucket, callers, serial, event, env, ctx, pc, listing, keys, mc, wg, mu,
                   bestIdx, bestKey, idx, fetched, stdout, ret, out>>

\* line 206: the deferred wg.Done
TaskDone(r, i) ==
    /\ task[r][i].pc = "wgdone"
    /\ wg' = [wg EXCEPT ![r] = @ - 1]
    /\ task' = [task EXCEPT ![r][i].pc = "exit"]
    /\ UNCHANGED <<bucket, callers, serial, event, env, ctx, pc, listing, keys, mc, sem, mu,
                   bestIdx, bestKey, idx, fetched, stdout, ret, out>>

Next ==
    \/ \E r \in Reqs : Invoke(r)
    \/ \E r \in Reqs : ListErr(r)
    \/ \E r \in Reqs : ListOk(r)
    \/ \E r \in Reqs : Add(r)
    \/ \E r \in Reqs : Send(r)
    \/ \E r \in Reqs : Go(r)
    \/ \E r \in Reqs : Wait(r)
    \/ \E r \in Reqs : Respond(r)
    \/ \E r \in Reqs, i \in Slots : TaskGet(r, i)
    \/ \E r \in Reqs, i \in Slots : TaskLock(r, i)
    \/ \E r \in Reqs, i \in Slots : TaskRecord(r, i)
    \/ \E r \in Reqs, i \in Slots : TaskRelease(r, i)
    \/ \E r \in Reqs, i \in Slots : TaskDone(r, i)

Spec == Init /\ [][Next]_vars

\* the goroutine that runs HandleRequest and processor of request r
Dispatcher(r) ==
    \/ Invoke(r) \/ ListErr(r) \/ ListOk(r) \/ Add(r) \/ Send(r) \/ Go(r)
    \/ Wait(r) \/ Respond(r)

\* the goroutine of keys[i]
Task(r, i) ==
    \/ TaskGet(r, i) \/ TaskLock(r, i) \/ TaskRecord(r, i)
    \/ TaskRelease(r, i) \/ TaskDone(r, i)

\* the Go scheduler runs every goroutine that can run; the calls to the store
\* return
FairSpec ==
    /\ Init /\ [][Next]_vars
    /\ \A r \in Reqs : WF_vars(Dispatcher(r))
    /\ \A r \in Reqs : \A i \in Slots : WF_vars(Task(r, i))

\* the caller cancels the context of request r while the request runs
Cancel(r) ==
    /\ pc[r] \notin {"idle", "done"}
    /\ ~ctx[r].done
    /\ ctx' = [ctx EXCEPT ![r] = [done |-> TRUE, after |-> idx[r]]]
    /\ UNCHANGED <<bucket, callers, serial, event, env, pc, listing, keys, mc, sem, wg, mu,
                   bestIdx, bestKey, idx, task, fetched, stdout, ret, out>>

NextCancel == Next \/ \E r \in Reqs : Cancel(r)

\* one request whose context the caller may cancel at any moment
CancelSpec == Init /\ [][NextCancel]_vars

\* largest number of entries of the bucket two concurrent requests scan
MaxConcKeys == 2

\* two requests running at the same time against one bucket, each with a
\* pool of one slot
InitConcurrent ==
    InitOver({1, 2}, FALSE,
             {b \in UNION {BucketsOfLen(n) : n \in 0..MaxConcKeys} :
                 \A p \in 1..Len(b) : b[p].Key # Nil /\ b[p].Fault # "read"},
             {Nil, Ptr(<<"a", "b">>)}, {<<"1">>})

ConcSpec == InitConcurrent /\ [][Next]_vars

\* characters a value of MAX_CONCURRENCY is made of
EnvChars == {"0", "1", "2", "5", "6", "7", "-", "+", "x", " "}

RECURSIVE StringsOfLen(_)
StringsOfLen(n) ==
    IF n = 0 THEN {<<>>}
    ELSE {Append(v, c) : v \in StringsOfLen(n - 1), c \in EnvChars}

\* values of MAX_CONCURRENCY around and beyond the int range
LongEnvValues ==
    {Itoa(MaxInt), Itoa(MaxInt - 1),
     <<"2", "1", "4", "7", "4", "8", "3", "6", "4", "8">>,
     <<"9", "9", "9", "9", "9", "9", "9", "9", "9", "9">>,
     <<"-", "9", "9", "9", "9", "9", "9", "9", "9", "9", "9">>,
     <<"0", "0", "0", "0", "0", "0", "0", "0", "0", "0", "6", "4">>}

EnvStrings == UNION {StringsOfLen(n) : n \in 0..MaxEnvLen} \cup LongEnvValues

\* one search over a bucket of one matching object, under every value of
\* MAX_CONCURRENCY of EnvStrings
InitEnv ==
    InitOver({1}, TRUE,
             {<<[Key |-> Ptr(KeyName(1)), Body |-> <<"x", "a", "b">>, Fault |-> "none"]>>},
             {Ptr(<<"a", "b">>)}, EnvStrings)

EnvSpec == InitEnv /\ [][Next]_vars

\* the same request issued twice against the same store, the second time when
\* the first has returned (cmd/runner calls HandleRequest twice in a row);
\* MAX_CONCURRENCY may differ between the two
InitTwoRuns == InitWith({1, 2}, TRUE) /\ event[1] = event[2]

TwoRunSpec == InitTwoRuns /\ [][Next]_vars

\* ----- what the claims speak of -------------------------------------------
Indices(r) == 0..(Len(keys[r]) - 1)

KeyAt(r, i) == keys[r][i + 1]

\* the request has returned to its caller after a successful listing
Answered(r) == pc[r] = "done" /\ listing[r] = "ok"

\* Response.Result of an answered request
ResultOf(r) == Deref(out[r].resp).Result

HasResponse(r) == out[r].err = NoErr /\ out[r].resp # Nil

\* the number a string of decimal digits denotes
RECURSIVE DecimalValue(_)
DecimalValue(s) ==
    IF s = <<>> THEN 0
    ELSE 10 * DecimalValue(SubSeq(s, 1, Len(s) - 1)) + DigitVal(s[Len(s)])

\* listing indices whose object, as stored, contains the substring
StoredMatches(r) ==
    {i \in Indices(r) : Contains(ObjectOf(KeyAt(r, i)).Body, Deref(event[r].Find))}

\* listing indices whose fetch and read succeed
Readable(r) == {i \in Indices(r) : ObjectOf(KeyAt(r, i)).Fault = "none"}

MinOf(S) == CHOOSE m \in S : \A x \in S : m <= x

KeyAtMin(r, S) == IF S = {} THEN Nil ELSE Ptr(KeyAt(r, MinOf(S)))

\* C1: in count mode, after a successful listing, the result is the decimal
\* string of the number of listed keys, whatever the pool size, the order in
\* which the tasks completed and the keys whose fetch or read failed.
CountEqualsListed ==
    \A r \in Reqs :
        Answered(r) /\ event[r].Find = Nil =>
            /\ HasResponse(r)
            /\ ResultOf(r) # Nil
            /\ DecimalValue(Deref(ResultOf(r))) = Len(keys[r])
            /\ Len(keys[r]) = Cardinality({p \in 1..Len(bucket) : bucket[p].Key # Nil})

\* a count-mode request answered 2 although one of its two keys failed
CountWithFailures ==
    /\ Answered(1) /\ event[1].Find = Nil
    /\ Len(keys[1]) = 2
    /\ Readable(1) # Indices(1)
    /\ HasResponse(1) /\ ResultOf(1) = Ptr(<<"2">>)

\* C2 as stated: in search mode the result is the key at the least listing
\* index among all listed keys whose content contains the substring, nil if
\* there is none.
SearchReturnsMinStoredMatch ==
    \A r \in Reqs :
        Answered(r) /\ event[r].Find # Nil =>
            HasResponse(r) /\ ResultOf(r) = KeyAtMin(r, StoredMatches(r))

\* C2 as amended: in search mode the result is the key at the least listing
\* index among the listed keys whose fetch and read succeeded and whose
\* content contains the substring, nil if there is none, whatever the order
\* in which the tasks completed.
SearchReturnsMinReadMatch ==
    \A r \in Reqs :
        Answered(r) /\ event[r].Find # Nil =>
            HasResponse(r) /\ ResultOf(r) = KeyAtMin(r, StoredMatches(r) \cap Readable(r))

\* a search answered with the second key: the first key's object contains the
\* substring, but its retrieval failed
SearchSkipsFailedMatch ==
    /\ Answered(1) /\ event[1].Find # Nil
    /\ Len(keys[1]) = 2
    /\ 0 \in StoredMatches(1) \ Readable(1)
    /\ 1 \in StoredMatches(1) \cap Readable(1)
    /\ HasResponse(1) /\ ResultOf(1) = Ptr(KeyAt(1, 1))

\* C3: two runs of the same request against the same listing, contents and
\* failing fetches return the same result, whatever their pool sizes and the
\* scheduling of their goroutines.
SameInputSameResult ==
    Answered(1) /\ Answered(2) /\ event[1] = event[2] =>
        /\ HasResponse(1) /\ HasResponse(2)
        /\ ResultOf(1) = ResultOf(2)

\* the same search answered under pool size 1 and under pool size 2, with
\* two readable matching keys
SameSearchTwoPoolSizes ==
    /\ Answered(1) /\ Answered(2)
    /\ event[1] = event[2] /\ event[1].Find # Nil
    /\ mc[1] = 1 /\ mc[2] = 2
    /\ Cardinality(StoredMatches(1) \cap Readable(1)) = 2
    /\ ResultOf(1) # Nil

\* tasks that hold a slot of the pool: started and not yet past <-sem
Holding(r) == {i \in Slots : task[r][i].pc \in {"get", "lock", "locked", "release"}}

Finished(r) == \A i \in Indices(r) : task[r][i].pc = "exit"

\* C4: the tasks started and not yet past their release are at most mc; the
\* semaphore holds one token per such task, plus the one the dispatcher has
\* sent for the task it is about to start, and never more than mc.
PoolBound ==
    \A r \in Reqs :
        /\ sem[r] = Cardinality(Holding(r)) + (IF pc[r] = "go" THEN 1 ELSE 0)
        /\ listing[r] = "ok" => sem[r] <= mc[r] /\ Cardinality(Holding(r)) <= mc[r]

\* the pool is full and the dispatcher stands at the send for the next key
PoolSaturated ==
    /\ pc[1] = "send" /\ idx[1] = 1
    /\ mc[1] = 1 /\ sem[1] = 1
    /\ Holding(1) = {0}

\* C5: when processor has returned, every goroutine it started has ended,
\* and from then on bestIdx and bestKey do not change.
ReturnAfterAllTasks ==
    /\ [](\A r \in Reqs : pc[r] \in {"returned", "done"} /\ listing[r] = "ok" =>
              Finished(r) /\ wg[r] = 0)
    /\ [][\A r \in Reqs : pc[r] \in {"returned", "done"} =>
              bestIdx'[r] = bestIdx[r] /\ bestKey'[r] = bestKey[r]]_vars

\* processor has returned the match its two goroutines left behind
ReturnedAfterTwoTasks ==
    /\ pc[1] = "returned" /\ listing[1] = "ok"
    /\ Len(keys[1]) = 2 /\ Finished(1)
    /\ bestKey[1] # Nil /\ ret[1].result = bestKey[1]

\* C6: a fetch or read error stays in its task: the task prints it and ends,
\* the tasks of the other keys run to their end without error, and a request
\* whose listing succeeded ends with a response and a nil error.
ErrorsAbsorbed ==
    \A r \in Reqs :
        /\ listing[r] = "ok" => ret[r].err = NoErr
        /\ Answered(r) =>
              /\ HasResponse(r)
              /\ \A i \in Indices(r) :
                    /\ task[r][i].pc = "exit"
                    /\ i \in Readable(r) => task[r][i].err = NoErr
                    /\ i \notin Readable(r) =>
                          /\ task[r][i].err # NoErr
                          /\ [req |-> r, key |-> KeyAt(r, i), err |-> task[r][i].err] \in stdout

\* a request answered although the first key failed to fetch and the second
\* failed to read
AnsweredDespiteErrors ==
    /\ Answered(1) /\ HasResponse(1)
    /\ Len(keys[1]) = 2
    /\ task[1][0].err = ErrFetch /\ task[1][1].err = ErrRead

\* C7: when the listing fails, processor returns (nil, err) and HandleRequest
\* returns (nil, err); no key is kept, no goroutine is started, no slot is
\* taken and no count or match is produced.
ListFailureAborts ==
    \A r \in Reqs :
        listing[r] = "err" =>
            /\ pc[r] \in {"returned", "done"}
            /\ ret[r] = [result |-> Nil, err |-> ErrList]
            /\ pc[r] = "done" => out[r] = [resp |-> Nil, err |-> ErrList]
            /\ pc[r] = "returned" => out[r].resp = Nil
            /\ keys[r] = <<>> /\ sem[r] = 0 /\ wg[r] = 0 /\ bestKey[r] = Nil
            /\ \A i \in Slots : task[r][i].pc = "new" /\ fetched[r][i] = 0

\* a request that failed at the listing of a bucket holding two keys
ListFailedOnTwoKeys ==
    /\ pc[1] = "done" /\ listing[1] = "err"
    /\ Len(ListedKeys(bucket)) = 2
    /\ out[1].err = ErrList

\* C8: when the listing succeeds with no key, no goroutine is started, the
\* dispatcher never stands at wg.Add or at the send, wg.Wait returns at once,
\* and the result is "0" in count mode and nil in search mode.
EmptyListing ==
    \A r \in Reqs :
        listing[r] = "ok" /\ keys[r] = <<>> =>
            /\ pc[r] \in {"wait", "returned", "done"}
            /\ pc[r] = "wait" => ENABLED Wait(r)
            /\ sem[r] = 0 /\ wg[r] = 0
            /\ \A i \in Slots : task[r][i].pc = "new" /\ fetched[r][i] = 0
            /\ pc[r] = "done" =>
                  /\ HasResponse(r)
                  /\ ResultOf(r) = IF event[r].Find = Nil THEN Ptr(<<"0">>) ELSE Nil

\* a count answered "0" for a listing of two entries without a key
EmptyCountAnswered ==
    /\ Answered(1) /\ event[1].Find = Nil
    /\ Len(bucket) = 2 /\ keys[1] = <<>>
    /\ ResultOf(1) = Ptr(<<"0">>)

\* C9: under fair scheduling, with every call to the store returning, a
\* request whose listing succeeded returns to its caller; the response is
\* written once, at that return, and stays.
EventuallyOneResult ==
    /\ \A r \in Reqs : (listing[r] = "ok") ~> (pc[r] = "done")
    /\ [][\A r \in Reqs :
              /\ out'[r] # out[r] => pc[r] = "returned" /\ pc'[r] = "done"
              /\ pc[r] = "done" => pc'[r] = "done"]_vars

\* a request over more keys than the pool has slots has returned
AnsweredBeyondPool ==
    /\ Answered(1) /\ HasResponse(1)
    /\ mc[1] = 1 /\ Len(keys[1]) = 2

\* C10: no key is fetched twice, and when processor returns, exactly one get
\* has been made for every listed key, in search mode also for the keys
\* submitted after a match was recorded.
EveryKeyFetchedOnce ==
    \A r \in Reqs :
        /\ \A i \in Slots : fetched[r][i] <= 1
        /\ \A i \in Slots \ Indices(r) : fetched[r][i] = 0
        /\ pc[r] \in {"returned", "done"} /\ listing[r] = "ok" =>
              /\ idx[r] = Len(keys[r])
              /\ \A i \in Indices(r) : fetched[r][i] = 1

\* a search over two keys with one slot has returned: the first key's match
\* was recorded before the second key got its slot, and both were fetched
FetchedAfterMatch ==
    /\ Answered(1) /\ event[1].Find # Nil
    /\ mc[1] = 1 /\ Len(keys[1]) = 2
    /\ bestIdx[1] = 0
    /\ fetched[1][0] = 1 /\ fetched[1][1] = 1

\* ----- MAX_CONCURRENCY, read as a decimal numeral -------------------------
\* an optional sign followed by one or more digits
IsNumeral(v) ==
    LET body == IF v # <<>> /\ v[1] \in {"+", "-"} THEN Tail(v) ELSE v
    IN  body # <<>> /\ \A k \in 1..Len(body) : IsDigit(body[k])

RECURSIVE StripZeros(_)
StripZeros(d) == IF d # <<>> /\ d[1] = "0" THEN StripZeros(Tail(d)) ELSE d

\* the digits of a numeral, without sign and leading zeros
Magnitude(v) == StripZeros(IF v[1] \in {"+", "-"} THEN Tail(v) ELSE v)

\* digit strings of the same length, compared from the left
RECURSIVE DigitsGreater(_, _)
DigitsGreater(a, b) ==
    /\ a # <<>>
    /\ \/ DigitVal(a[1]) > DigitVal(b[1])
       \/ a[1] = b[1] /\ DigitsGreater(Tail(a), Tail(b))

\* the number a digit string without leading zeros denotes is above n
ExceedsNat(d, n) ==
    \/ Len(d) > Len(Itoa(n))
    \/ Len(d) = Len(Itoa(n)) /\ DigitsGreater(d, Itoa(n))

\* the numeral denotes a number below 1
BelowOne(v) == v[1] = "-" \/ Magnitude(v) = <<>>

\* what C11 says maxConcurrency returns
ClaimedConcurrency(v) ==
    IF v = <<>> \/ ~IsNumeral(v) THEN 64
    ELSE IF BelowOne(v) THEN 64
    ELSE IF ExceedsNat(Magnitude(v), 256) THEN 256
    ELSE DecimalValue(Magnitude(v))

\* the same, with a numeral beyond the int range treated as unparsable
AmendedConcurrency(v) ==
    IF v = <<>> \/ ~IsNumeral(v) THEN 64
    ELSE IF BelowOne(v) THEN 64
    ELSE IF ExceedsNat(Magnitude(v), MaxInt) THEN 64
    ELSE IF ExceedsNat(Magnitude(v), 256) THEN 256
    ELSE DecimalValue(Magnitude(v))

\* C11 as stated: the pool size is 64 when MAX_CONCURRENCY is unset, not a
\* number or below 1, 256 when it is above 256, and its value otherwise.
ConcurrencyAsClaimed ==
    \A r \in Reqs : listing[r] = "ok" => mc[r] = ClaimedConcurrency(env[r])

\* C11 as amended: the pool size is always within 1..256; it is 64 when
\* MAX_CONCURRENCY is unset, not a number, below 1 or beyond the int range,
\* 256 when it is above 256 and within the int range, its value otherwise.
ConcurrencyClamped ==
    \A r \in Reqs :
        listing[r] = "ok" =>
            /\ mc[r] \in 1..256
            /\ mc[r] = AmendedConcurrency(env[r])

\* a request that read a numeral one above the largest int and got 64 slots
ConcurrencyBeyondInt ==
    /\ listing[1] = "ok"
    /\ IsNumeral(env[1]) /\ ~BelowOne(env[1])
    /\ ExceedsNat(Magnitude(env[1]), MaxInt)
    /\ mc[1] = 64

\* ----- the accumulator and the pool ----------------------------------------
\* tasks whose report is behind them: past the mutex with a match
Reported(r) ==
    {i \in Slots : task[r][i].match # Nil /\ task[r][i].pc \in {"release", "wgdone", "exit"}}

\* tasks started by the dispatcher
Started(r) == {i \in Slots : task[r][i].pc # "new"}

\* C12: in search mode bestKey, and with it the result, is nil or a listed
\* key that was fetched and read without error and whose content contains
\* the substring; a task whose fetch or read failed carries no match and
\* never stands at the mutex; the result is the least such index's key.
NoFalsePositive ==
    \A r \in Reqs :
        listing[r] = "ok" /\ event[r].Find # Nil =>
            /\ bestKey[r] # Nil =>
                  \E i \in Indices(r) :
                      /\ bestKey[r] = Ptr(KeyAt(r, i))
                      /\ task[r][i].err = NoErr /\ fetched[r][i] = 1
                      /\ ObjectOf(KeyAt(r, i)).Fault = "none"
                      /\ Contains(ObjectOf(KeyAt(r, i)).Body, Deref(event[r].Find))
            /\ \A i \in Indices(r) :
                  task[r][i].err # NoErr =>
                      /\ task[r][i].match = Nil
                      /\ task[r][i].pc \notin {"lock", "locked"}
                      /\ bestIdx[r] # i
            /\ pc[r] = "done" =>
                  /\ HasResponse(r)
                  /\ ResultOf(r) = bestKey[r]
                  /\ ResultOf(r) =
                        KeyAtMin(r, {i \in Indices(r) :
                                        /\ task[r][i].err = NoErr
                                        /\ Contains(ObjectOf(KeyAt(r, i)).Body,
                                                    Deref(event[r].Find))})

\* a search answered with the second key: the first key's body holds the
\* substring but its read failed
SearchSkipsUnreadBody ==
    /\ Answered(1) /\ event[1].Find = Ptr(<<"a", "b">>)
    /\ Len(keys[1]) = 2
    /\ task[1][0].err = ErrRead
    /\ Contains(ObjectOf(KeyAt(1, 0)).Body, <<"a", "b">>)
    /\ bestIdx[1] = 1 /\ ResultOf(1) = Ptr(KeyAt(1, 1))

AdmittedInOrder ==
    /\ [](\A r \in Reqs : Started(r) = {i \in Slots : i < idx[r]})
    /\ [][\A r \in Reqs : \A i \in Slots :
              task[r][i].pc = "new" /\ task'[r][i].pc # "new" =>
                  /\ pc[r] = "go" /\ idx[r] = i
                  /\ sem[r] >= 1 /\ sem[r] <= mc[r]
                  /\ Cardinality(Holding(r)) < mc[r]
                  /\ \A j \in 0..(i - 1) : task[r][j].pc # "new"]_vars

\* with one slot, the second key's task runs after the first gave the slot
\* back
SecondAfterRelease ==
    /\ mc[1] = 1 /\ Len(keys[1]) = 2
    /\ task[1][0].pc \in {"wgdone", "exit"}
    /\ task[1][1].pc = "get" /\ sem[1] = 1

\* C15: a task gives its slot back once, on every path, before it signals
\* the WaitGroup; the WaitGroup counts the tasks added and not yet done; and
\* when wg.Wait has returned the semaphore is empty.
SlotReleasedOnce ==
    \A r \in Reqs :
        /\ \A i \in Slots :
              /\ task[r][i].released <= 1
              /\ task[r][i].released = 1 <=> task[r][i].pc \in {"wgdone", "exit"}
        /\ wg[r] = Cardinality({i \in Slots : task[r][i].pc \notin {"new", "exit"}})
                    + (IF pc[r] \in {"send", "go"} THEN 1 ELSE 0)
        /\ pc[r] \in {"returned", "done"} /\ listing[r] = "ok" =>
              /\ sem[r] = 0
              /\ \A i \in Indices(r) : task[r][i].released = 1

\* processor has returned from a search in which one task failed and one
\* found no match; both gave their slot back
ReturnedWithEmptyPool ==
    /\ pc[1] = "returned" /\ listing[1] = "ok"
    /\ event[1].Find = Ptr(<<"a", "b">>)
    /\ Len(keys[1]) = 2
    /\ task[1][0].err # NoErr
    /\ task[1][1].err = NoErr /\ task[1][1].match = Nil
    /\ sem[1] = 0

\* ----- two requests at once ------------------------------------------------
\* what belongs to one invocation of processor and HandleRequest
Local(r) ==
    <<pc[r], listing[r], keys[r], mc[r], sem[r], wg[r], mu[r], bestIdx[r], bestKey[r],
      idx[r], task[r], fetched[r], ret[r], out[r]>>

\* what request r returns when it runs alone
AloneResult(r) ==
    IF event[r].Find = Nil
    THEN Ptr(Itoa(Len(ListedKeys(bucket))))
    ELSE KeyAtMin(r, StoredMatches(r) \cap Readable(r))

\* C16: of two requests running at once, each returns what it returns alone;
\* each has its own pool of mc slots, so its send is possible whenever its
\* own semaphore is not full, whatever the other holds; and no step of one
\* changes anything of the other.
RequestsIndependent ==
    /\ [](\A r \in Reqs :
              /\ Answered(r) => HasResponse(r) /\ ResultOf(r) = AloneResult(r)
              /\ sem[r] = Cardinality(Holding(r)) + (IF pc[r] = "go" THEN 1 ELSE 0)
              /\ pc[r] = "send" /\ sem[r] < mc[r] => ENABLED Send(r)
              /\ pc[r] = "wait" /\ (\A i \in Indices(r) : task[r][i].pc = "exit")
                    => ENABLED Wait(r))
    /\ [][Local(1)' = Local(1) \/ Local(2)' = Local(2)]_vars

\* both requests hold the one slot of their own pool at the same time
BothPoolsFull ==
    /\ mc[1] = 1 /\ mc[2] = 1
    /\ pc[1] = "send" /\ pc[2] = "send"
    /\ Holding(1) = {0} /\ Holding(2) = {0}
    /\ sem[1] = 1 /\ sem[2] = 1

\* ----- cancellation ---------------------------------------------------------
\* C17: after the context is cancelled during the scan the submit loop goes
\* on to the last key; every task started after the cancellation fails in
\* get, prints the error and records nothing; the request returns a response
\* and a nil error: the number of listed keys in count mode, in search mode
\* the key of the least index among the matches recorded, or nil.
CancelledScanCompletes ==
    \A r \in Reqs :
        listing[r] = "ok" /\ ctx[r].done =>
            /\ pc[r] \in {"wait", "returned", "done"} => idx[r] = Len(keys[r])
            /\ ret[r].err = NoErr
            /\ \A i \in Indices(r) :
                  i >= ctx[r].after /\ task[r][i].pc \notin {"new", "get"} =>
                      /\ task[r][i].err = ErrCanceled
                      /\ task[r][i].match = Nil
                      /\ task[r][i].pc \in {"release", "wgdone", "exit"}
                      /\ [req |-> r, key |-> KeyAt(r, i), err |-> ErrCanceled] \in stdout
            /\ pc[r] = "done" =>
                  /\ HasResponse(r)
                  /\ \A i \in Indices(r) : task[r][i].pc = "exit" /\ fetched[r][i] = 1
                  /\ ResultOf(r) =
                        IF event[r].Find = Nil THEN Ptr(Itoa(Len(keys[r])))
                        ELSE KeyAtMin(r, {i \in Indices(r) : task[r][i].match # Nil})

\* a search cancelled after its first key was started: the second key was
\* still submitted and failed, and the first key's match is the result
CancelledAfterFirstKey ==
    /\ Answered(1) /\ HasResponse(1)
    /\ ctx[1].done /\ ctx[1].after = 1
    /\ Len(keys[1]) = 2
    /\ task[1][0].match # Nil
    /\ task[1][1].err = ErrCanceled /\ fetched[1][1] = 1
    /\ ObjectOf(KeyAt(1, 1)).Fault = "none"
    /\ ResultOf(1) = Ptr(KeyAt(1, 0))

====
